---- MODULE Spec2Model ----
(***************************************************************************)
(* Model of the Qdrant API monitor (src/main.py): a Streamlit script whose *)
(* body, main(), is re-run on every user interaction.  The session state   *)
(* (last_check_time, health_history, response_times) and the widget values *)
(* (refresh_interval, alert_threshold) survive between runs.               *)
(*                                                                         *)
(* Time is counted in whole seconds since the session was created.  The    *)
(* clock is taken to be non-decreasing.                                    *)
(***************************************************************************)
EXTENDS Integers, Sequences, FiniteSets, TLC

\* Python's None, for last_check_time and for response_time.
None == -1

\* timedelta(hours=24), in seconds.
RetentionWindow == 86400

\* timedelta normalises to 0 <= seconds < 24*3600.
SecondsPerDay == 24 * 3600

\* ---- bounds of the model -------------------------------------------------
\* Number of runs of main() explored.
MaxRuns == 3

\* Seconds between the end of one run and the start of the next: half a
\* minute, and ten seconds less than a day.
Delays == {30, 86390}

\* Seconds between the trigger test (line 191) and update_metrics' now
\* (line 124); the client timeout is 10 s.
ProbeDurations == {0, 10}

\* Response times (ms) a successful probe may measure.
Latencies == {0, 500, 600}

\* Values of the refresh-interval slider (30..300 step 30) explored: the
\* slider's default.
Intervals == {60}

\* Values of the alert-threshold input (100..1000) explored.
Thresholds == {500}

\* Seconds of clock explored while script threads interleave.
MaxClock == 3

\* Script threads of one session that may run at the same time.
ScriptThreads == {1, 2}

\* Longest health history the uptime query is applied to.
MaxHistory == 5

\* Number of consecutive uptime queries on one store.
MaxQueries == 2

VARIABLES
    now,               \* wall clock at the end of the latest run
    last_check_time,   \* st.session_state.last_check_time
    health_history,    \* st.session_state.health_history : Seq(<<t, status>>)
    response_times,    \* st.session_state.response_times : Seq(<<t, ms>>)
    refresh_interval,  \* value of the slider
    alert_threshold,   \* value of the number input
    run,               \* what the latest run of main() did
    runs,              \* number of runs so far
    threads            \* script threads of the session, statement by statement

store == <<last_check_time, health_history, response_times>>
vars == <<now, last_check_time, health_history, response_times,
          refresh_interval, alert_threshold, run, runs, threads>>

\* ---- helpers --------------------------------------------------------------

\* A run in which nothing has happened yet.
NoRun ==
    [kind |-> "none", start |-> 0, check_button |-> FALSE,
     send_button |-> FALSE, listed |-> FALSE, lct_before |-> None,
     checked |-> FALSE, probes |-> 0,
     listing_ok |-> FALSE, target_present |-> FALSE, detail_ok |-> FALSE,
     status |-> FALSE, details |-> "none", response_time |-> None,
     probe_raised |-> FALSE,
     records |-> 0, record_time |-> None, verdict |-> "None",
     dispatch |-> FALSE, smtp_ok |-> FALSE, twilio_ok |-> FALSE,
     emails |-> 0, smss |-> 0, email_sent |-> FALSE, sms_sent |-> FALSE,
     raised |-> FALSE, rendered |-> FALSE,
     health_before |-> 0, latency_before |-> 0, uptime |-> None]

\* A script thread that has not started its run.
IdleThread ==
    [pc |-> "idle", now |-> None, status |-> FALSE, response_time |-> None,
     tmp |-> <<>>]

\* (a - b).seconds for datetimes a, b.
timedelta_seconds(delta) == delta % SecondsPerDay

\* Truthiness of an optional float: None and 0.0 are falsy.
truthy(x) == x # None /\ x # 0

\* ---- the functions of main.py ---------------------------------------------

\* check_api_health without the inner try/except: a failing detail fetch is
\* caught by the outer handler and reported as a connection failure.
check_api_health_no_inner_try(listing_ok, target_present, detail_ok, ms) ==
    IF ~listing_ok
    THEN [status |-> FALSE, details |-> "connect_failed",
          response_time |-> None, raised |-> FALSE]
    ELSE IF ~target_present
    THEN [status |-> FALSE, details |-> "not_found",
          response_time |-> None, raised |-> FALSE]
    ELSE IF detail_ok
    THEN [status |-> TRUE, details |-> "safe_info",
          response_time |-> ms, raised |-> FALSE]
    ELSE [status |-> FALSE, details |-> "connect_failed",
          response_time |-> None, raised |-> FALSE]

check_api_health(listing_ok, target_present, detail_ok, elapsed_ms) ==
    IF ~listing_ok
    THEN [status |-> FALSE, details |-> "connect_failed",
          response_time |-> None, raised |-> FALSE]
    ELSE IF ~target_present
    THEN [status |-> FALSE, details |-> "not_found",
          response_time |-> None, raised |-> FALSE]
    ELSE IF detail_ok
    THEN [status |-> TRUE, details |-> "safe_info",
          response_time |-> elapsed_ms, raised |-> FALSE]
    ELSE [status |-> FALSE, details |-> "info_failed",
          response_time |-> None, raised |-> FALSE]

\* update_metrics pruning with t >= cutoff instead of t > cutoff.
update_metrics_keeps_cutoff(history, times, status, response_time, at) ==
    LET h1 == Append(history, <<at, status>>)
        r1 == IF truthy(response_time)
              THEN Append(times, <<at, response_time>>)
              ELSE times
        cutoff == at - RetentionWindow
        keep(s) == s[1] >= cutoff
    IN  [last_check_time |-> at,
         health_history |-> SelectSeq(h1, keep),
         response_times |-> SelectSeq(r1, keep)]

\* update_metrics appending a latency sample whatever response_time is.
update_metrics_always_latency(history, times, status, response_time, at) ==
    LET h1 == Append(history, <<at, status>>)
        r1 == Append(times, <<at, response_time>>)
        cutoff == at - RetentionWindow
        keep(s) == s[1] > cutoff
    IN  [last_check_time |-> at,
         health_history |-> SelectSeq(h1, keep),
         response_times |-> SelectSeq(r1, keep)]

\* update_metrics inserting the new samples at the head of the lists.
update_metrics_prepends(history, times, status, response_time, at) ==
    LET h1 == <<(<<at, status>>)>> \o history
        r1 == IF truthy(response_time)
              THEN <<(<<at, response_time>>)>> \o times
              ELSE times
        cutoff == at - RetentionWindow
        keep(s) == s[1] > cutoff
    IN  [last_check_time |-> at,
         health_history |-> SelectSeq(h1, keep),
         response_times |-> SelectSeq(r1, keep)]

\* update_metrics pruning the two lists against different cutoffs.
update_metrics_two_cutoffs(history, times, status, response_time, at) ==
    LET h1 == Append(history, <<at, status>>)
        r1 == IF truthy(response_time)
              THEN Append(times, <<at, response_time>>)
              ELSE times
        cutoff == at - RetentionWindow
        keep(s) == s[1] > cutoff
        keep_latency(s) == s[1] >= cutoff
    IN  [last_check_time |-> at,
         health_history |-> SelectSeq(h1, keep),
         response_times |-> SelectSeq(r1, keep_latency)]

\* update_metrics storing the cutoff, not now, in last_check_time.
update_metrics_stamps_cutoff(history, times, status, response_time, at) ==
    LET h1 == Append(history, <<at, status>>)
        r1 == IF truthy(response_time)
              THEN Append(times, <<at, response_time>>)
              ELSE times
        cutoff == at - RetentionWindow
        keep(s) == s[1] > cutoff
    IN  [last_check_time |-> cutoff,
         health_history |-> SelectSeq(h1, keep),
         response_times |-> SelectSeq(r1, keep)]

update_metrics(history, times, status, response_time, at) ==
    LET h1 == Append(history, <<at, status>>)
        r1 == IF truthy(response_time)
              THEN Append(times, <<at, response_time>>)
              ELSE times
        cutoff == at - RetentionWindow
        keep(s) == s[1] > cutoff
    IN  [last_check_time |-> at,
         health_history |-> SelectSeq(h1, keep),
         response_times |-> SelectSeq(r1, keep)]

should_check(check_button, lct, t, interval) ==
    \/ check_button
    \/ lct = None
    \/ timedelta_seconds(t - lct) >= interval

\* The threshold test written with >= instead of >.
alert_verdict_ge(status, response_time, threshold) ==
    IF status
    THEN IF response_time >= threshold THEN "LatencyBreach" ELSE "None"
    ELSE "Failure"

alert_verdict(status, response_time, threshold) ==
    IF status
    THEN IF response_time > threshold THEN "LatencyBreach" ELSE "None"
    ELSE "Failure"

\* Alerts sent on every unhealthy result, without the button.
dispatch_alerts_auto(status, send_button) == ~status

\* The Send Alerts button exists only in the branch of an unhealthy result.
dispatch_alerts(status, send_button) == ~status /\ send_button

\* send_email_alert without its try/except: an SMTP failure propagates.
send_email_alert_raises(smtp_ok) == [ret |-> smtp_ok, raised |-> ~smtp_ok]

send_email_alert(smtp_ok) == [ret |-> smtp_ok, raised |-> FALSE]

send_sms_alert(twilio_ok) == [ret |-> twilio_ok, raised |-> FALSE]

\* The uptime query showing 0 for an empty history instead of "no data".
uptime_percent_zero_when_empty(history) ==
    LET n == Len(history)
        healthy == Cardinality({i \in DOMAIN history : history[i][2]})
    IN  IF n = 0 THEN 0
        ELSE (2 * 10000 * healthy + n) \div (2 * n)

\* "Uptime (24h)" as main displays it with two decimals (lines 264-279), in
\* hundredths of a percent; None stands for "No health history available".
uptime_percent(history) ==
    LET n == Len(history)
        healthy == Cardinality({i \in DOMAIN history : history[i][2]})
    IN  IF n = 0 THEN None
        ELSE (2 * 10000 * healthy + n) \div (2 * n)

\* ---- one run of main() ----------------------------------------------------

\* The part of main after the check block (lines 215-279): it only reads.
render_history(r, history) ==
    IF r.rendered THEN [r EXCEPT !.uptime = uptime_percent(history)] ELSE r

\* An early return that also resets the session's history.
EarlyReturn_clears(base, t) ==
    /\ now' = t
    /\ run' = base
    /\ last_check_time' = None
    /\ health_history' = <<>>
    /\ response_times' = <<>>

\* Lines 157-160: no collection is listed, nothing else is executed.
EarlyReturn(base, t) ==
    /\ now' = t
    /\ run' = base
    /\ UNCHANGED store

\* A run that gets past line 160 and whose trigger test is false.
NoCheck(base, t) ==
    /\ now' = t
    /\ run' = render_history([base EXCEPT !.rendered = TRUE], health_history)
    /\ UNCHANGED store

\* The check block of main (lines 193-213) for one probe outcome.
CheckBlock(base, t, th, send_button, lo, tp, dk, ms, d, so, to) ==
    LET probe == check_api_health(lo, tp, dk, ms)
        at == t + d
        r0 == [base EXCEPT !.checked = TRUE, !.probes = 1,
                           !.listing_ok = lo, !.target_present = tp,
                           !.detail_ok = dk, !.status = probe.status,
                           !.details = probe.details,
                           !.response_time = probe.response_time,
                           !.probe_raised = probe.raised]
    IN  /\ now' = at
        /\ IF probe.raised
           THEN /\ run' = [r0 EXCEPT !.raised = TRUE]
                /\ UNCHANGED store
           ELSE LET m == update_metrics(health_history, response_times,
                                        probe.status, probe.response_time, at)
                    r1 == [r0 EXCEPT !.records = 1, !.record_time = at,
                                     !.verdict = alert_verdict(probe.status,
                                                   probe.response_time, th)]
                    go == dispatch_alerts(probe.status, send_button)
                    email == send_email_alert(so)
                    sms == send_sms_alert(to)
                    r2 == IF ~go THEN [r1 EXCEPT !.rendered = TRUE]
                          ELSE IF email.raised
                          THEN [r1 EXCEPT !.dispatch = TRUE, !.smtp_ok = so,
                                          !.emails = 1, !.raised = TRUE]
                          ELSE IF sms.raised
                          THEN [r1 EXCEPT !.dispatch = TRUE, !.smtp_ok = so,
                                          !.twilio_ok = to, !.emails = 1,
                                          !.smss = 1,
                                          !.email_sent = email.ret,
                                          !.raised = TRUE]
                          ELSE [r1 EXCEPT !.dispatch = TRUE, !.smtp_ok = so,
                                          !.twilio_ok = to, !.emails = 1,
                                          !.smss = 1,
                                          !.email_sent = email.ret,
                                          !.sms_sent = sms.ret,
                                          !.rendered = TRUE]
                IN  /\ last_check_time' = m.last_check_time
                    /\ health_history' = m.health_history
                    /\ response_times' = m.response_times
                    /\ run' = render_history(r2, m.health_history)

\* What the service may answer to one probe: listing, presence of the
\* target, detail fetch, and the time measured when all three work.  A step
\* the probe does not get to (presence after a failed listing, detail fetch
\* of an absent target) has no answer and is written FALSE.
ProbeInputs ==
    {p \in BOOLEAN \X BOOLEAN \X BOOLEAN \X Latencies :
        /\ (p[1] /\ p[2] /\ p[3]) \/ p[4] = 0
        /\ ~p[1] => (~p[2] /\ ~p[3])
        /\ ~p[2] => ~p[3]}

\* One run of main, its inputs drawn from the given sets.
MainIn(kind, check_button, send_button, ri, th, delays, listings, probes, durations, limit) ==
    /\ runs < limit
    /\ runs' = runs + 1
    /\ UNCHANGED threads
    /\ refresh_interval' = ri
    /\ alert_threshold' = th
    /\ \E delay \in delays, listed \in listings :
         LET t == now + delay
             base == [NoRun EXCEPT !.kind = kind, !.start = t,
                                   !.check_button = check_button,
                                   !.send_button = send_button,
                                   !.listed = listed,
                                   !.lct_before = last_check_time,
                                   !.health_before = Len(health_history),
                                   !.latency_before = Len(response_times)]
         IN  IF ~listed
             THEN EarlyReturn(base, t)
             ELSE IF should_check(check_button, last_check_time, t, ri)
             THEN \E p \in probes :
                  \E d \in durations :
                  \E so, to \in (IF send_button /\ ~(p[1] /\ p[2] /\ p[3])
                                 THEN BOOLEAN ELSE {FALSE}) :
                      CheckBlock(base, t, th, send_button,
                                 p[1], p[2], p[3], p[4], d, so, to)
             ELSE NoCheck(base, t)

Main(kind, check_button, send_button, ri, th) ==
    MainIn(kind, check_button, send_button, ri, th,
           Delays, BOOLEAN, ProbeInputs, ProbeDurations, MaxRuns)

\* ---- what makes the script run --------------------------------------------

\* The Check Now button is drawn by every run that gets past line 160.
CheckNowShown == run.listed /\ ~run.raised

\* The Send Alerts button is drawn by a run whose check was unhealthy.
SendAlertsShown == run.records = 1 /\ ~run.status /\ ~run.raised

\* The sidebar widgets are drawn by every run that gets past line 160.
SettingsShown == run.listed

Init ==
    /\ now = 0
    /\ last_check_time = None
    /\ health_history = <<>>
    /\ response_times = <<>>
    /\ refresh_interval = 60
    /\ alert_threshold = 500
    /\ run = NoRun
    /\ runs = 0
    /\ threads = [t \in ScriptThreads |-> IdleThread]

\* First load, "Rerun" from the menu, or a change of a sidebar widget.
Rerun ==
    \E ri \in (IF SettingsShown THEN Intervals ELSE {refresh_interval}) :
    \E th \in (IF SettingsShown THEN Thresholds ELSE {alert_threshold}) :
        Main("rerun", FALSE, FALSE, ri, th)

\* The operator presses Check Now.
CheckNow ==
    /\ CheckNowShown
    /\ Main("check_now", TRUE, FALSE, refresh_interval, alert_threshold)

\* The operator presses Send Alerts.
SendAlerts ==
    /\ SendAlertsShown
    /\ Main("send_alerts", FALSE, TRUE, refresh_interval, alert_threshold)

Next == Rerun \/ CheckNow \/ SendAlerts

Spec == Init /\ [][Next]_vars

\* ---- the uptime query on its own -------------------------------------------
\* The history block of main (lines 263-279) applied, several times in a row
\* and without a record in between, to a store of up to MaxHistory samples
\* taken half a minute apart (the empty store is the one of lines 38-43).

HistoryOf(flags) == [i \in 1..Len(flags) |-> <<30 * i, flags[i]>>]

LatenciesOf(history) ==
    LET healthy(s) == s[2]
        h == SelectSeq(history, healthy)
    IN  [i \in 1..Len(h) |-> <<h[i][1], 500>>]

Histories ==
    {<<>>} \cup UNION {[1..n -> BOOLEAN] : n \in 1..MaxHistory}

InitUptime ==
    \E flags \in Histories :
        /\ health_history = HistoryOf(flags)
        /\ response_times = LatenciesOf(HistoryOf(flags))
        /\ last_check_time = (IF Len(flags) = 0 THEN None ELSE 30 * Len(flags))
        /\ now = 30 * Len(flags)
        /\ refresh_interval = 60
        /\ alert_threshold = 500
        /\ run = NoRun
        /\ runs = 0
        /\ threads = [t \in ScriptThreads |-> IdleThread]

UptimeQuery ==
    /\ runs < MaxQueries
    /\ runs' = runs + 1
    /\ NoCheck([NoRun EXCEPT !.kind = "rerun", !.start = now,
                             !.listed = TRUE,
                             !.lct_before = last_check_time,
                             !.health_before = Len(health_history),
                             !.latency_before = Len(response_times)], now)
    /\ UNCHANGED <<refresh_interval, alert_threshold, threads>>

NextUptime == UptimeQuery

SpecUptime == InitUptime /\ [][NextUptime]_vars

\* ---- script threads, statement by statement --------------------------------
\* main.py holds no lock and no in-flight flag: whether two runs of the script
\* overlap is left to the host.  Here the script threads of one session run
\* the check block (lines 189-195) and update_metrics (lines 123-132) one
\* statement at a time, in any interleaving; lines 131 and 132 each evaluate
\* their list comprehension and then store the result.

Step(t, from, to) ==
    /\ threads[t].pc = from
    /\ threads' = [threads EXCEPT ![t].pc = to]

\* Lines 189-192: the trigger test of a new run; line 194 starts the probe.
StartRun(t) ==
    /\ threads[t].pc = "idle"
    /\ \E check_button \in BOOLEAN :
          threads' = [threads EXCEPT ![t].pc =
                        IF should_check(check_button, last_check_time, now,
                                        refresh_interval)
                        THEN "probe" ELSE "done"]
    /\ UNCHANGED <<now, store, refresh_interval, alert_threshold, run, runs>>

\* Line 194: check_api_health returns.
ProbeReturns(t) ==
    /\ threads[t].pc = "probe"
    /\ \E p \in ProbeInputs :
          LET r == check_api_health(p[1], p[2], p[3], p[4])
          IN  threads' = [threads EXCEPT ![t].pc = "l124",
                                         ![t].status = r.status,
                                         ![t].response_time = r.response_time]
    /\ UNCHANGED <<now, store, refresh_interval, alert_threshold, run, runs>>

\* Line 124: now = datetime.now()
ReadNow(t) ==
    /\ threads[t].pc = "l124"
    /\ threads' = [threads EXCEPT ![t].pc = "l125", ![t].now = now]
    /\ UNCHANGED <<now, store, refresh_interval, alert_threshold, run, runs>>

\* Line 125: st.session_state.last_check_time = now
SetLastCheckTime(t) ==
    /\ Step(t, "l125", "l126")
    /\ last_check_time' = threads[t].now
    /\ UNCHANGED <<now, health_history, response_times, refresh_interval,
                   alert_threshold, run, runs>>

\* Line 126: health_history.append((now, status))
AppendHealth(t) ==
    /\ Step(t, "l126", "l127")
    /\ health_history' =
          Append(health_history, <<threads[t].now, threads[t].status>>)
    /\ UNCHANGED <<now, last_check_time, response_times, refresh_interval,
                   alert_threshold, run, runs>>

\* Lines 127-128: if response_time: response_times.append((now, response_time))
AppendLatency(t) ==
    /\ Step(t, "l127", "l131")
    /\ response_times' =
          IF truthy(threads[t].response_time)
          THEN Append(response_times,
                      <<threads[t].now, threads[t].response_time>>)
          ELSE response_times
    /\ UNCHANGED <<now, last_check_time, health_history, refresh_interval,
                   alert_threshold, run, runs>>

\* Lines 130-131, right-hand side: the filtered copy of health_history.
FilterHealth(t) ==
    /\ threads[t].pc = "l131"
    /\ LET keep(s) == s[1] > threads[t].now - RetentionWindow
       IN  threads' = [threads EXCEPT ![t].pc = "l131_store",
                                      ![t].tmp = SelectSeq(health_history, keep)]
    /\ UNCHANGED <<now, store, refresh_interval, alert_threshold, run, runs>>

\* Line 131, assignment.
StoreHealth(t) ==
    /\ Step(t, "l131_store", "l132")
    /\ health_history' = threads[t].tmp
    /\ UNCHANGED <<now, last_check_time, response_times, refresh_interval,
                   alert_threshold, run, runs>>

\* Line 132, right-hand side: the filtered copy of response_times.
FilterLatency(t) ==
    /\ threads[t].pc = "l132"
    /\ LET keep(s) == s[1] > threads[t].now - RetentionWindow
       IN  threads' = [threads EXCEPT ![t].pc = "l132_store",
                                      ![t].tmp = SelectSeq(response_times, keep)]
    /\ UNCHANGED <<now, store, refresh_interval, alert_threshold, run, runs>>

\* Line 132, assignment; the run then goes on to render and ends.
StoreLatency(t) ==
    /\ threads[t].pc = "l132_store"
    /\ threads' = [threads EXCEPT ![t].pc = "done", ![t].tmp = <<>>]
    /\ response_times' = threads[t].tmp
    /\ UNCHANGED <<now, last_check_time, health_history, refresh_interval,
                   alert_threshold, run, runs>>

\* The clock advances by a second.
Tick ==
    /\ now < MaxClock
    /\ now' = now + 1
    /\ UNCHANGED <<store, refresh_interval, alert_threshold, run, runs,
                   threads>>

NextThreads ==
    \/ Tick
    \/ \E t \in ScriptThreads :
          \/ StartRun(t)
          \/ ProbeReturns(t)
          \/ ReadNow(t)
          \/ SetLastCheckTime(t)
          \/ AppendHealth(t)
          \/ AppendLatency(t)
          \/ FilterHealth(t)
          \/ StoreHealth(t)
          \/ FilterLatency(t)
          \/ StoreLatency(t)

SpecThreads == Init /\ [][NextThreads]_vars

\* ---- properties -----------------------------------------------------------

Timestamps(samples) == {samples[i][1] : i \in DOMAIN samples}

\* The elapsed-interval / first-run condition of the scheduler, on the real
\* elapsed time of the latest run.
Due == run.lct_before = None \/ run.start - run.lct_before >= refresh_interval

\* C1: immediately after each update_metrics call every sample left in the
\* health list and in the latency list has a timestamp strictly greater than
\* the call's time minus 24 hours (a sample exactly at the cutoff is gone).
C1_PrunedAfterRecord ==
    run.records = 1 =>
        \A t \in Timestamps(health_history) \cup Timestamps(response_times) :
            t > run.record_time - RetentionWindow

\* C1 witness: a record exactly 24 hours after the previous record; the
\* previous record's sample, sitting exactly on the cutoff, has been removed.
C1_Witness ==
    /\ run.records = 1
    /\ run.lct_before # None
    /\ run.lct_before = run.record_time - RetentionWindow
    /\ run.lct_before \notin Timestamps(health_history)
    /\ Len(health_history) = 1

\* C2 (as claimed): at every run of main that renders the history, neither
\* list holds a sample older than the current time minus 24 hours.
C2_NoStaleSampleAtObservation ==
    run.rendered =>
        \A t \in Timestamps(health_history) \cup Timestamps(response_times) :
            t >= now - RetentionWindow

\* C3 (as claimed): a run that reaches the scheduler starts a check when
\* last_check_time is unset or the elapsed time is at least refresh_interval,
\* whatever the elapsed time; without a manual trigger it starts none when
\* the elapsed time is smaller.
C3_CheckStartedWhenDue ==
    run.listed =>
        /\ Due => run.checked
        /\ (~run.check_button /\ ~Due) => ~run.checked

\* C4 (as claimed): every trigger (manual, first run, elapsed interval) runs
\* one probe, records one health sample of its outcome and sets
\* last_check_time to the time of that record; an unreachable service is
\* recorded as an unhealthy sample without latency sample.
C4_TriggerProbesAndRecords ==
    (run.kind # "none" /\ (run.check_button \/ Due)) =>
        /\ run.probes = 1
        /\ run.records = 1
        /\ last_check_time = run.record_time
        /\ Len(health_history) > 0
        /\ health_history[Len(health_history)] = <<run.record_time, run.status>>
        /\ run.details = "connect_failed" =>
              /\ ~run.status
              /\ run.record_time \notin Timestamps(response_times)

\* C5: check_api_health never raises and returns exactly one of four
\* outcomes, decided by listing / presence / detail fetch; a latency is
\* present if and only if the result is healthy.
C5_ProbeOutcomes ==
    run.probes = 1 =>
        /\ ~run.probe_raised
        /\ run.details \in {"safe_info", "not_found", "info_failed",
                            "connect_failed"}
        /\ run.details = "safe_info" <=>
              (run.listing_ok /\ run.target_present /\ run.detail_ok)
        /\ run.details = "not_found" <=>
              (run.listing_ok /\ ~run.target_present)
        /\ run.details = "info_failed" <=>
              (run.listing_ok /\ run.target_present /\ ~run.detail_ok)
        /\ run.details = "connect_failed" <=> ~run.listing_ok
        /\ run.status <=> run.details = "safe_info"
        /\ run.response_time # None <=> run.status

\* C5 witness: the listing worked, the target is there, the detail fetch
\* failed, and the probe reported exactly that, unhealthy and without latency.
C5_Witness ==
    /\ run.probes = 1
    /\ run.listing_ok /\ run.target_present /\ ~run.detail_ok
    /\ run.details = "info_failed"
    /\ run.response_time = None

\* C6: the verdict shown by a check is Failure when the result is unhealthy,
\* otherwise LatencyBreach when the latency is strictly above the threshold,
\* otherwise none; a latency equal to the threshold gives no alert.
C6_VerdictRule ==
    run.records = 1 =>
        /\ ~run.status => run.verdict = "Failure"
        /\ (run.status /\ run.response_time > alert_threshold)
              => run.verdict = "LatencyBreach"
        /\ (run.status /\ run.response_time <= alert_threshold)
              => run.verdict = "None"

\* C6 witness: a healthy result whose latency equals the threshold, no alert.
C6_Witness ==
    /\ run.records = 1
    /\ run.status
    /\ run.response_time = alert_threshold
    /\ run.verdict = "None"

\* C7 (as claimed): when the operator presses Send Alerts for a displayed
\* verdict, both send_email_alert and send_sms_alert are called.
C7_ConfirmSendsBothChannels ==
    run.send_button => (run.emails = 1 /\ run.smss = 1)

\* C8: send_email_alert and send_sms_alert are called only in a run in which
\* the Send Alerts button is set; a failing check without it calls neither.
C8_NoSendWithoutConfirm ==
    /\ (run.emails > 0 \/ run.smss > 0) => run.send_button
    /\ (run.verdict = "Failure" /\ ~run.send_button)
          => (run.emails = 0 /\ run.smss = 0)

\* C8 witness: a check ended in the Failure verdict in a run without the
\* confirm action, and no notifier was called.
C8_Witness ==
    /\ run.records = 1
    /\ run.verdict = "Failure"
    /\ ~run.send_button
    /\ run.emails = 0 /\ run.smss = 0

\* C9: on a confirmed dispatch each channel is attempted exactly once, the SMS
\* whatever the email's outcome; a failing send gives FALSE to the caller and
\* the run goes on.
C9_ChannelsIndependent ==
    run.dispatch =>
        /\ run.emails = 1
        /\ run.smss = 1
        /\ ~run.raised
        /\ run.rendered
        /\ run.email_sent = run.smtp_ok
        /\ run.sms_sent = run.twilio_ok

\* C9 witness: the email send failed, the SMS send was attempted and worked.
C9_Witness ==
    /\ run.dispatch
    /\ ~run.smtp_ok /\ ~run.email_sent
    /\ run.smss = 1 /\ run.sms_sent

\* C10 (as claimed): a record appends a latency sample whenever the result
\* carries a latency, a latency of 0 included.
C10_LatencyRecordedWhenPresent ==
    (run.records = 1 /\ run.response_time # None) =>
        /\ Len(response_times) > 0
        /\ response_times[Len(response_times)]
              = <<run.record_time, run.response_time>>

Sorted(samples) ==
    \A i, j \in DOMAIN samples : i < j => samples[i][1] <= samples[j][1]

\* a is what is left of b after removing a prefix of b.
IsSuffix(a, b) ==
    /\ Len(a) <= Len(b)
    /\ a = SubSeq(b, Len(b) - Len(a) + 1, Len(b))

HealthyCount(history) == Cardinality({i \in DOMAIN history : history[i][2]})

\* C11: the latency list is never longer than the health list; a record of a
\* result without latency appends its health sample and no latency sample.
C11_LatencyNoLongerThanHealth ==
    /\ Len(response_times) <= Len(health_history)
    /\ (run.records = 1 /\ run.response_time = None) =>
          /\ Len(health_history) > 0
          /\ health_history[Len(health_history)]
                = <<run.record_time, run.status>>
          /\ Len(response_times) <= run.latency_before
          /\ run.record_time \notin Timestamps(response_times)

\* C11 witness: a target-not-found result was recorded after an earlier
\* healthy one: the health list grew by one, the latency list did not.
C11_Witness ==
    /\ run.records = 1
    /\ run.details = "not_found"
    /\ run.latency_before >= 1
    /\ Len(health_history) = run.health_before + 1
    /\ Len(response_times) = run.latency_before

\* C12: both lists are always ordered by non-decreasing timestamp, and a
\* record leaves of each list a suffix of the list with the new sample
\* appended (pruning cuts a prefix and reorders nothing).
C12_OrderedAndPrefixPruned ==
    [][ /\ Sorted(health_history')
        /\ Sorted(response_times')
        /\ run'.records = 1 =>
              /\ IsSuffix(health_history',
                          Append(health_history,
                                 <<run'.record_time, run'.status>>))
              /\ \/ IsSuffix(response_times', response_times)
                 \/ IsSuffix(response_times',
                             Append(response_times,
                                    <<run'.record_time, run'.response_time>>))
      ]_vars

\* C12 witness: a record pruned the oldest of two samples and left the other
\* followed by the new one.
C12_Witness ==
    /\ run.records = 1
    /\ run.health_before = 2
    /\ Len(health_history) = 2
    /\ health_history[1][1] < health_history[2][1]

\* C13: the uptime shown is 100 x healthy / total of the retained samples (to
\* the two decimals displayed; 60.00 for 3 healthy and 2 unhealthy), "no
\* data" for an empty health list, and a second query without a record in
\* between shows the same value and leaves the store unchanged.
C13_UptimeQuery ==
    [][ /\ run'.rendered =>
              LET n == Len(health_history')
                  k == HealthyCount(health_history')
                  err == run'.uptime * n - 10000 * k
              IN  /\ n = 0 => run'.uptime = None
                  /\ n > 0 => /\ run'.uptime # None
                              /\ 2 * err <= n /\ 2 * err >= -n
                  /\ (k = 3 /\ n = 5) => run'.uptime = 6000
        /\ (run.rendered /\ run'.rendered /\ run'.records = 0) =>
              /\ run'.uptime = run.uptime
              /\ UNCHANGED store
      ]_vars

\* C13 witness: the uptime of 3 healthy and 2 unhealthy samples is shown.
C13_Witness ==
    /\ run.rendered
    /\ Len(health_history) = 5
    /\ HealthyCount(health_history) = 3
    /\ run.uptime = 6000

\* C16: every sample of the latency list has a sample of the health list with
\* the same timestamp, and that health sample is healthy.
C16_LatencyHasHealthySample ==
    \A i \in DOMAIN response_times :
        \E j \in DOMAIN health_history :
            health_history[j] = <<response_times[i][1], TRUE>>

\* C16 witness: a healthy record pruned an older check, its health sample and
\* its latency sample together, and added its own pair.
C16_Witness ==
    /\ run.records = 1
    /\ truthy(run.response_time)
    /\ run.health_before >= 1 /\ run.latency_before >= 1
    /\ Len(health_history) = run.health_before
    /\ Len(response_times) = run.latency_before

\* C17: a run without check, a run that returns early and the dispatch of
\* alerts leave last_check_time and both lists alone: the store changes only
\* in a run that records, and then to exactly what update_metrics makes of it,
\* whether or not alerts were sent.
C17_StoreMutatedOnlyByRecord ==
    [][ /\ run'.records = 0 => UNCHANGED store
        /\ run'.records = 1 =>
              LET m == update_metrics(health_history, response_times,
                                      run'.status, run'.response_time,
                                      run'.record_time)
              IN  /\ last_check_time' = m.last_check_time
                  /\ health_history' = m.health_history
                  /\ response_times' = m.response_times
      ]_vars

\* C17 witness: a run returned early at the listing while the store held
\* samples.
C17_Witness ==
    /\ run.kind # "none"
    /\ ~run.listed
    /\ run.records = 0
    /\ Len(health_history) > 0
    /\ last_check_time # None

\* C18: last_check_time is unset exactly as long as no record has happened
\* (both lists are then empty); afterwards the health list is never empty,
\* its last sample carries last_check_time, and last_check_time never
\* decreases.
C18_LastCheckTime ==
    [][ /\ last_check_time' = None =>
              /\ health_history' = <<>> /\ response_times' = <<>>
              /\ run'.records = 0
        /\ last_check_time' # None =>
              /\ Len(health_history') > 0
              /\ health_history'[Len(health_history')][1] = last_check_time'
        /\ run'.records = 1 => last_check_time' # None
        /\ (last_check_time = None /\ last_check_time' # None)
              => run'.records = 1
        /\ last_check_time # None =>
              (last_check_time' # None /\ last_check_time' >= last_check_time)
      ]_vars

\* C18 witness: a record pruned every older sample; the health list holds the
\* new sample alone, stamped with last_check_time.
C18_Witness ==
    /\ run.records = 1
    /\ run.lct_before # None
    /\ run.health_before >= 1
    /\ Len(health_history) = 1
    /\ health_history[1][1] = last_check_time

\* A check is in flight from the start of its probe until update_metrics has
\* returned.
InFlight(t) == threads[t].pc \notin {"idle", "done"}

\* Threads whose update_metrics call has appended its health sample.
Appended ==
    {t \in ScriptThreads :
        threads[t].pc \in {"l127", "l131", "l131_store", "l132", "l132_store",
                           "done"} /\ threads[t].now # None}

\* C14 (as claimed): at most one check is in flight at any time.
C14_OneCheckInFlight ==
    Cardinality({t \in ScriptThreads : InFlight(t)}) <= 1

\* C15 (as claimed): when update_metrics calls interleave, no appended sample
\* is lost (the clock stays far inside the retention window, so pruning has
\* nothing to remove) and both lists stay ordered by timestamp.
C15_RecordAtomic ==
    /\ Sorted(health_history)
    /\ Sorted(response_times)
    /\ (\A t \in ScriptThreads : ~InFlight(t))
          => Len(health_history) = Cardinality(Appended)

====
